---- MODULE Spec2Model ----
(***************************************************************************)
(* Model of function_app.py: a timer-triggered job that stages two Oracle  *)
(* wallet files from blob storage, connects to the database, generates a   *)
(* batch of synthetic water-consumption rows and inserts it.               *)
(*                                                                         *)
(* Real numbers (temperature, noise, consumption) are modelled by          *)
(* integers; file and blob contents by short sequences of bytes.           *)
(***************************************************************************)
EXTENDS Integers, Sequences, FiniteSets, TLC

\* ------------------------------------------------------------------ bounds
\* Number of invocations of generate_usage_data that are modelled.
MaxRuns == 2
\* Number of invocations that can be in progress at once.
MaxOverlap == 2
\* Largest n_samples tried when generate_sample_data_tuples is checked alone.
MaxN == 3
\* Seeds of the random source used by the runs: 0..MaxSeed.
MaxSeed == 1

\* ------------------------------------------------------- program constants
\* generate_sample_data_tuples(10)
BatchSize == 10
\* household_size * 50
PerPerson == 50
\* np.random.randint(1, 6, ...)
HouseholdLow == 1
HouseholdHigh == 6
\* np.random.normal(loc=20, scale=5, ...)
TempLoc == 20
TempScale == 5
\* np.random.normal(loc=0, scale=10, ...)
NoiseLoc == 0
NoiseScale == 10
\* np.random.choice([0, 250], ...)
AnomalyJump == 250

TimesOfDay == <<"morning", "afternoon", "evening", "night">>
Seasons == <<"spring", "summer", "fall", "winter">>
DaysOfWeek == <<"weekday", "weekend">>
AnomalyChoices == <<TRUE, FALSE>>
JumpChoices == <<0, AnomalyJump>>

\* The two wallet files, in the order of files_to_download.
files_to_download == <<"ewallet.pem", "tnsnames.ora">>
BlobNames == {files_to_download[i] : i \in 1..Len(files_to_download)}

\* The invocations in progress are told apart by a slot.
Runs == 1..MaxOverlap

\* ------------------------------------------------------ the random source
\* np.random.choice(values, ...): one element, selected by the raw draw u.
Choice(values, u) == values[(u % Len(values)) + 1]

\* A wrong randint that includes its upper end.
RandIntInclusive(low, high, u) == low + (u % (high - low + 1))

\* np.random.randint(low, high, ...): an integer in low..high-1.
RandInt(low, high, u) == low + (u % (high - low))

\* np.random.normal(loc, scale, ...): z is the standard-normal draw.
Normal(loc, scale, z) == loc + scale * z

\* np.sum(anomalies): the number of True entries of a boolean array.
RECURSIVE CountTrue(_, _)
CountTrue(mask, k) ==
    IF k = 0 THEN 0
    ELSE CountTrue(mask, k - 1) + (IF mask[k] THEN 1 ELSE 0)

\* A wrong masked add: the k-th drawn value is added to element k of the
\* array, whether or not that element is selected by the mask.
MaskedAddByPosition(arr, mask, vals) ==
    [i \in DOMAIN arr |->
        IF i \in DOMAIN vals THEN arr[i] + vals[i] ELSE arr[i]]

\* arr[mask] += vals: the k-th value is added to the k-th selected element.
MaskedAdd(arr, mask, vals) ==
    [i \in DOMAIN arr |->
        IF mask[i] THEN arr[i] + vals[CountTrue(mask, i)] ELSE arr[i]]

\* int(anomalies[i])
BoolToInt(b) == IF b THEN 1 ELSE 0

\* generate_sample_data_tuples(n_samples), with the draws of the random
\* source passed in as rnd: one raw draw per sample for each array, and one
\* per anomalous sample for the jump.
generate_sample_data_tuples(n_samples, rnd) ==
    LET idx == 1..n_samples
        time_of_day == [i \in idx |-> Choice(TimesOfDay, rnd.time_of_day[i])]
        season == [i \in idx |-> Choice(Seasons, rnd.season[i])]
        temperature ==
            [i \in idx |-> Normal(TempLoc, TempScale, rnd.temperature[i])]
        household_size ==
            [i \in idx |->
                RandInt(HouseholdLow, HouseholdHigh, rnd.household_size[i])]
        day_of_week == [i \in idx |-> Choice(DaysOfWeek, rnd.day_of_week[i])]
        normal_consumption ==
            [i \in idx |->
                (household_size[i] * PerPerson)
                    + Normal(NoiseLoc, NoiseScale, rnd.noise[i])]
        anomalies == [i \in idx |-> Choice(AnomalyChoices, rnd.anomalies[i])]
        jumps ==
            [k \in 1..CountTrue(anomalies, n_samples) |->
                Choice(JumpChoices, rnd.jump[k])]
        anomalous_consumption == MaskedAdd(normal_consumption, anomalies, jumps)
    IN  [i \in idx |->
            << time_of_day[i], season[i], temperature[i], household_size[i],
               day_of_week[i], anomalous_consumption[i],
               BoolToInt(anomalies[i]) >>]

\* The draws a seeded random source produces for a batch of n samples.
RandomSource(seed, n) ==
    LET anomalies == [i \in 1..n |-> IF (i + seed) % 4 = 0 THEN 0 ELSE 1]
        flagged == Cardinality({i \in 1..n : anomalies[i] = 0})
    IN  [ time_of_day    |-> [i \in 1..n |-> seed + i],
          season         |-> [i \in 1..n |-> seed + 2 * i],
          temperature    |-> [i \in 1..n |-> ((seed + i) % 3) - 1],
          household_size |-> [i \in 1..n |-> seed + 3 * i],
          day_of_week    |-> [i \in 1..n |-> seed + i],
          noise          |-> [i \in 1..n |-> ((seed + 2 * i) % 3) - 1],
          anomalies      |-> anomalies,
          jump           |-> [k \in 1..flagged |-> seed + k] ]

\* ------------------------------------------------- files and blob storage
\* Contents a wallet blob can have.
BlobVersions == { <<1>>, <<2, 2>> }

\* What blob storage answers to download_blob().readall(): the bytes, or a
\* failure (storage unreachable, blob missing, not authorised).
Blob(bytes) == [ok |-> TRUE, bytes |-> bytes]
Unavailable == [ok |-> FALSE, bytes |-> << >>]
RemoteStates == {Blob(b) : b \in BlobVersions} \cup {Unavailable}

\* A local file: absent, or present with its bytes.
NoFile == [exists |-> FALSE, bytes |-> << >>]
File(bytes) == [exists |-> TRUE, bytes |-> bytes]
LocalStates == {NoFile, File(<< >>)} \cup {File(b) : b \in BlobVersions}

\* A wrong open that appends: the file keeps its bytes and the position is
\* its end.
open_ab(f) == [file |-> File(f.bytes), pos |-> Len(f.bytes)]

\* A wrong open that does not truncate: the file keeps its bytes and the
\* position is 0.
open_keep(f) == [file |-> File(f.bytes), pos |-> 0]

\* open(local_path, "wb"): the file is created or truncated, position 0.
open_wb(f) == [file |-> File(<< >>), pos |-> 0]

\* A wrong write that loses the last byte of the data.
write_short(f, pos, data) ==
    File(SubSeq(f.bytes, 1, pos) \o SubSeq(data, 1, Len(data) - 1))

\* download_file.write(data) followed by the close of the with block.
write(f, pos, data) ==
    File(SubSeq(f.bytes, 1, pos) \o data
            \o SubSeq(f.bytes, pos + Len(data) + 1, Len(f.bytes)))

\* ---------------------------------------------------------------- database
\* Results of oracledb.connect, lines 75-82: a connection, an
\* oracledb.DatabaseError, or an exception of another class
\* (oracledb.InterfaceError, TypeError, ...). get_db_connection makes no
\* test of the staged files: whether the driver needs them is the
\* database's answer (a DSN without TLS connects with no wallet at all).
ConnectResults == {"connection", "DatabaseError", "Error"}

\* A wrong guard that goes on without a connection.
AlwaysTruthy(c) == TRUE

\* if connection:
Truthy(c) == c = "connection"

\* A wrong executemany that commits each row as it is executed.
TableAfterExecuteAutocommit(tbl, rows) == tbl \o rows

\* cursor.executemany(insert_sql, rows): the rows executed belong to the open
\* transaction; the committed table is unchanged.
TableAfterExecute(tbl, rows) == tbl

\* A wrong commit that replaces what other sessions have committed.
TableAfterCommitAlone(tbl, rows) == rows

\* A wrong commit that loses the first row of the transaction.
TableAfterCommitDropFirst(tbl, rows) ==
    tbl \o (IF rows = << >> THEN << >> ELSE Tail(rows))

\* connection.commit(): the rows of the transaction become visible.
TableAfterCommit(tbl, rows) == tbl \o rows

\* -------------------------------------------------------------------- state
VARIABLES
    remote,         \* blob name -> what storage answers for it now
    config_ok,      \* AZURE_STORAGE_CONNECTION_STRING makes a client (line 52)
    files,          \* blob name -> the local file PEM_PATH / TNS_PATH
    wallet_dir,     \* the directory WALLET_LOCATION exists
    table,          \* committed rows of water_consumption_data, in order
    commits,        \* number of commits that succeeded
    invocations,    \* number of times the timer has fired
    provisioned,    \* the last returns of download_wallet_files (two until
                    \* line 42 is reached, then one): what storage answered
                    \* and the files as they were left
    pc,             \* run -> where the invocation is
    past_due,       \* run -> myTimer.past_due
    idx,            \* run -> index in files_to_download of the current file
    fpos,           \* run -> write position of the open local file
    seen,           \* run -> the answers of storage to this run's fetches
    connection,     \* run -> result of get_db_connection
    conn_state,     \* run -> "none", "open", "closed"
    data_tuples,    \* run -> the generated batch
    pending,        \* run -> rows of the run's uncommitted transaction
    rows_at_start,  \* run -> number of committed rows when the run began
    raised,         \* run -> exception that left generate_usage_data
    calls,          \* run -> the functions called, in order
    log,            \* run -> the levels of the log records, in order
    overlapped,     \* run -> another invocation was in progress during it
    gen_pc,         \* "ready" before the direct call, "returned" after
    gen_n,          \* n_samples of the direct call of the generator
    gen_rnd,        \* the draws of that call
    gen_out         \* its result

env_vars == << remote, config_ok >>
fs_vars == << files, wallet_dir >>
db_vars == << table, commits >>
run_vars == << invocations, provisioned, pc, past_due, idx, fpos, seen,
               connection, conn_state, data_tuples, pending, rows_at_start,
               raised, calls, log, overlapped >>
gen_vars == << gen_pc, gen_n, gen_rnd, gen_out >>
vars == << remote, config_ok, files, wallet_dir, table, commits, invocations,
           provisioned, pc, past_due, idx, fpos, seen, connection, conn_state,
           data_tuples, pending, rows_at_start, raised, calls, log, overlapped,
           gen_pc, gen_n, gen_rnd, gen_out >>

NoDraws ==
    [ time_of_day |-> << >>, season |-> << >>, temperature |-> << >>,
      household_size |-> << >>, day_of_week |-> << >>, noise |-> << >>,
      anomalies |-> << >>, jump |-> << >> ]

\* No invocation has started.
RunsIdle ==
    /\ wallet_dir = TRUE
    /\ table = << >>
    /\ commits = 0
    /\ overlapped = [r \in Runs |-> FALSE]
    /\ invocations = 0
    /\ provisioned = << >>
    /\ pc = [r \in Runs |-> "idle"]
    /\ past_due = [r \in Runs |-> FALSE]
    /\ idx = [r \in Runs |-> 1]
    /\ fpos = [r \in Runs |-> 0]
    /\ seen = [r \in Runs |-> << >>]
    /\ connection = [r \in Runs |-> "unset"]
    /\ conn_state = [r \in Runs |-> "none"]
    /\ data_tuples = [r \in Runs |-> << >>]
    /\ pending = [r \in Runs |-> << >>]
    /\ rows_at_start = [r \in Runs |-> 0]
    /\ raised = [r \in Runs |-> "none"]
    /\ calls = [r \in Runs |-> << >>]
    /\ log = [r \in Runs |-> << >>]

InitGen ==
    /\ gen_pc = "ready"
    /\ gen_n = 0
    /\ gen_rnd = NoDraws
    /\ gen_out = << >>

\* The staging directory exists (os.makedirs at import, line 25) and holds
\* whatever an earlier process left there. The environment of the process
\* holds a storage connection string that makes a client, or one that does
\* not (unset, malformed).
Init ==
    /\ remote \in [BlobNames -> RemoteStates]
    /\ config_ok \in BOOLEAN
    /\ files \in [BlobNames -> LocalStates]
    /\ RunsIdle
    /\ InitGen

\* ------------------------------------------------------------- environment
\* Blob storage changes: a blob is replaced, removed or restored.
ChangeRemote ==
    /\ \E b \in BlobNames, v \in RemoteStates :
        /\ v # remote[b]
        /\ remote' = [remote EXCEPT ![b] = v]
    /\ UNCHANGED << config_ok, fs_vars, db_vars, run_vars, gen_vars >>

\* ------------------------------------------------------ generate_usage_data
Free(r) == pc[r] \in {"idle", "ended"}

\* Of the record of the returns of download_wallet_files the last one is
\* kept once the run goes on to line 42: the next return is compared with it.
LastReturn(p) == IF Len(p) > 1 THEN << p[Len(p)] >> ELSE p

\* download_wallet_files returns: the return is added to the record, which
\* holds two returns at most.
Provisioned(answers, left) ==
    LET p == Append(provisioned, [seen |-> answers, staged |-> left])
    IN  IF Len(p) > 2 THEN Tail(p) ELSE p

\* A wrong late test that returns when the timer is past due.
ReturnsWhenLate(late) == ~late

\* Lines 37-38: the run goes on after the test of myTimer.past_due, whether
\* the warning was logged or not.
GoesOn(late) == TRUE

\* A wrong order of the last stages: the connection is closed before
\* insert_data is called.
StageAfterCloseFirst(stage) ==
    CASE stage = "generate" -> "close"
      [] stage = "close" -> "executemany"
      [] stage = "commit" -> "ended"

\* Lines 45-47: after the generator insert_data is called (executemany, then
\* the commit), then connection.close(), then the function returns.
StageAfter(stage) ==
    CASE stage = "generate" -> "executemany"
      [] stage = "commit" -> "close"
      [] stage = "close" -> "ended"

\* generate_usage_data is entered, lines 37-41, and download_wallet_files up
\* to the first download_file (lines 51-59): the warning when the timer is
\* late, then the storage client. When the connection string makes no client
\* the exception is caught at line 62 and logged, no file is touched and
\* generate_usage_data goes on to line 42. What the slot held of an ended
\* invocation is gone (a connection it left open is unreachable and its
\* transaction is never committed).
Enter(r, late) ==
    /\ invocations < MaxRuns
    /\ invocations' = invocations + 1
    /\ past_due' = [past_due EXCEPT ![r] = late]
    /\ log' = [log EXCEPT ![r] =
                (IF late THEN << "warning" >> ELSE << >>)
                    \o (IF GoesOn(late) /\ ~config_ok
                        THEN << "error" >> ELSE << >>)]
    /\ calls' = [calls EXCEPT ![r] =
                    IF GoesOn(late) THEN << "download_wallet_files" >>
                    ELSE << >>]
    /\ provisioned' =
        IF GoesOn(late) /\ ~config_ok
        THEN Provisioned(<< >>, files) ELSE provisioned
    /\ pc' = [pc EXCEPT ![r] =
                IF ~GoesOn(late) THEN "ended"
                ELSE IF config_ok THEN "open" ELSE "connect"]
    /\ rows_at_start' = [rows_at_start EXCEPT ![r] = Len(table)]
    /\ idx' = [idx EXCEPT ![r] = 1]
    /\ fpos' = [fpos EXCEPT ![r] = 0]
    /\ seen' = [seen EXCEPT ![r] = << >>]
    /\ connection' = [connection EXCEPT ![r] = "unset"]
    /\ conn_state' = [conn_state EXCEPT ![r] = "none"]
    /\ data_tuples' = [data_tuples EXCEPT ![r] = << >>]
    /\ pending' = [pending EXCEPT ![r] = << >>]
    /\ raised' = [raised EXCEPT ![r] = "none"]
    /\ UNCHANGED << env_vars, fs_vars, db_vars, gen_vars >>

\* The timer fires when no invocation is in progress: invocations follow one
\* another. The invocation takes the first slot.
Trigger(r) ==
    /\ \A q \in Runs : Free(q)
    /\ r = 1
    /\ \E late \in BOOLEAN : Enter(r, late)
    /\ overlapped' = [overlapped EXCEPT ![r] = FALSE]

\* download_file, line 68: the local file is opened for writing.
DownloadOpen(r) ==
    /\ pc[r] = "open"
    /\ wallet_dir
    /\ LET b == files_to_download[idx[r]]
           o == open_wb(files[b])
       IN  /\ files' = [files EXCEPT ![b] = o.file]
           /\ fpos' = [fpos EXCEPT ![r] = o.pos]
    /\ pc' = [pc EXCEPT ![r] = "write"]
    /\ UNCHANGED << env_vars, wallet_dir, db_vars, invocations, provisioned,
                    past_due, idx, seen, connection, conn_state, data_tuples,
                    pending, rows_at_start, raised, calls, log, overlapped,
                    gen_vars >>

\* download_file, lines 69-70: the blob is read and written to the open
\* file; then the loop of download_wallet_files goes to the next file, or
\* download_wallet_files returns and generate_usage_data goes on to line 42.
DownloadWriteOk(r) ==
    /\ pc[r] = "write"
    /\ LET b == files_to_download[idx[r]]
           last == idx[r] = Len(files_to_download)
           f == [files EXCEPT ![b] = write(files[b], fpos[r], remote[b].bytes)]
           answers == Append(seen[r], remote[b])
       IN  /\ remote[b].ok
           /\ files' = f
           /\ seen' = [seen EXCEPT ![r] = answers]
           /\ log' = [log EXCEPT ![r] = Append(@, "info")]
           /\ idx' = [idx EXCEPT ![r] = IF last THEN @ ELSE @ + 1]
           /\ pc' = [pc EXCEPT ![r] = IF last THEN "connect" ELSE "open"]
           /\ provisioned' =
                IF last THEN Provisioned(answers, f) ELSE provisioned
    /\ UNCHANGED << env_vars, wallet_dir, db_vars, invocations, past_due, fpos,
                    connection, conn_state, data_tuples, pending,
                    rows_at_start, raised, calls, overlapped, gen_vars >>

\* download_file, line 69, when download_blob fails: the exception leaves
\* the with block (the file was truncated by the open and stays empty), is
\* caught at line 62 and logged; download_wallet_files returns normally and
\* generate_usage_data goes on to line 42.
DownloadWriteFail(r) ==
    /\ pc[r] = "write"
    /\ LET b == files_to_download[idx[r]]
           answers == Append(seen[r], remote[b])
       IN  /\ ~remote[b].ok
           /\ seen' = [seen EXCEPT ![r] = answers]
           /\ provisioned' = Provisioned(answers, files)
    /\ log' = [log EXCEPT ![r] = Append(@, "error")]
    /\ pc' = [pc EXCEPT ![r] = "connect"]
    /\ UNCHANGED << env_vars, fs_vars, db_vars, invocations, past_due, idx,
                    fpos, connection, conn_state, data_tuples, pending,
                    rows_at_start, raised, calls, overlapped, gen_vars >>

\* Line 42: get_db_connection, lines 74-86, and the test of line 44. The
\* result of oracledb.connect does not depend on what is staged.
GetDbConnection(r) ==
    /\ pc[r] = "connect"
    /\ calls' = [calls EXCEPT ![r] = Append(@, "get_db_connection")]
    /\ \E res \in ConnectResults :
        \/ /\ res = "connection"
           /\ connection' = [connection EXCEPT ![r] = "connection"]
           /\ conn_state' = [conn_state EXCEPT ![r] = "open"]
           /\ UNCHANGED << raised, log >>
           /\ pc' = [pc EXCEPT ![r] =
                        IF Truthy("connection") THEN "generate" ELSE "ended"]
        \/ /\ res = "DatabaseError"
           /\ connection' = [connection EXCEPT ![r] = "None"]
           /\ log' = [log EXCEPT ![r] = Append(@, "error")]
           /\ UNCHANGED << raised, conn_state >>
           /\ pc' = [pc EXCEPT ![r] =
                        IF Truthy("None") THEN "generate" ELSE "ended"]
        \/ /\ res = "Error"
           /\ connection' = [connection EXCEPT ![r] = "raised"]
           /\ raised' = [raised EXCEPT ![r] = "Error"]
           /\ UNCHANGED << log, conn_state >>
           /\ pc' = [pc EXCEPT ![r] = "ended"]
    /\ provisioned' = LastReturn(provisioned)
    /\ UNCHANGED << env_vars, fs_vars, db_vars, invocations, past_due, idx,
                    fpos, seen, data_tuples, pending, rows_at_start,
                    overlapped, gen_vars >>

\* Line 45: the batch is generated.
Generate(r) ==
    /\ pc[r] = "generate"
    /\ \E seed \in 0..MaxSeed :
        data_tuples' = [data_tuples EXCEPT ![r] =
            generate_sample_data_tuples(BatchSize, RandomSource(seed, BatchSize))]
    /\ calls' = [calls EXCEPT ![r] = Append(@, "generate_sample_data_tuples")]
    /\ pc' = [pc EXCEPT ![r] = StageAfter("generate")]
    /\ UNCHANGED << env_vars, fs_vars, db_vars, invocations, provisioned,
                    past_due, idx, fpos, seen, connection, conn_state, pending,
                    rows_at_start, raised, log, overlapped, gen_vars >>

\* Line 46: insert_data, lines 121-122: executemany executes the rows in order and
\* stops at the first row the database rejects; done is the number of rows
\* executed. On a rejection the exception leaves insert_data and
\* generate_usage_data: nothing catches it and line 47 is not reached.
ExecuteMany(r) ==
    /\ pc[r] = "executemany"
    /\ \E done \in 0..Len(data_tuples[r]) :
        LET rows == SubSeq(data_tuples[r], 1, done)
            ok == done = Len(data_tuples[r])
        IN  /\ pending' = [pending EXCEPT ![r] = rows]
            /\ table' = TableAfterExecute(table, rows)
            /\ raised' = [raised EXCEPT ![r] =
                            IF ok THEN @ ELSE "DatabaseError"]
            /\ pc' = [pc EXCEPT ![r] = IF ok THEN "commit" ELSE "ended"]
    /\ calls' = [calls EXCEPT ![r] = @ \o << "insert_data", "executemany" >>]
    /\ UNCHANGED << env_vars, fs_vars, commits, invocations, provisioned,
                    past_due, idx, fpos, seen, connection, conn_state,
                    data_tuples, rows_at_start, log, overlapped, gen_vars >>

\* insert_data, lines 123-126: commit, cursor.close and the log record. A
\* failed commit raises out of insert_data and generate_usage_data.
Commit(r) ==
    /\ pc[r] = "commit"
    /\ \/ /\ table' = TableAfterCommit(table, pending[r])
          /\ commits' = commits + 1
          /\ pending' = [pending EXCEPT ![r] = << >>]
          /\ log' = [log EXCEPT ![r] = Append(@, "info")]
          /\ pc' = [pc EXCEPT ![r] = StageAfter("commit")]
          /\ UNCHANGED raised
       \/ /\ raised' = [raised EXCEPT ![r] = "DatabaseError"]
          /\ pc' = [pc EXCEPT ![r] = "ended"]
          /\ UNCHANGED << table, commits, pending, log >>
    /\ calls' = [calls EXCEPT ![r] = Append(@, "commit")]
    /\ UNCHANGED << env_vars, fs_vars, invocations, provisioned, past_due, idx,
                    fpos, seen, connection, conn_state, data_tuples,
                    rows_at_start, overlapped, gen_vars >>

\* Line 47: connection.close(); generate_usage_data returns.
Close(r) ==
    /\ pc[r] = "close"
    /\ conn_state' = [conn_state EXCEPT ![r] = "closed"]
    /\ calls' = [calls EXCEPT ![r] = Append(@, "close")]
    /\ pc' = [pc EXCEPT ![r] = StageAfter("close")]
    /\ UNCHANGED << env_vars, fs_vars, db_vars, invocations, provisioned,
                    past_due, idx, fpos, seen, connection, data_tuples,
                    pending, rows_at_start, raised, log, overlapped,
                    gen_vars >>

Next ==
    \/ ChangeRemote
    \/ \E r \in Runs : Trigger(r)
    \/ \E r \in Runs : DownloadOpen(r)
    \/ \E r \in Runs : DownloadWriteOk(r)
    \/ \E r \in Runs : DownloadWriteFail(r)
    \/ \E r \in Runs : GetDbConnection(r)
    \/ \E r \in Runs : Generate(r)
    \/ \E r \in Runs : ExecuteMany(r)
    \/ \E r \in Runs : Commit(r)
    \/ \E r \in Runs : Close(r)

Spec == Init /\ [][Next]_vars

\* ------------------------------------------------- overlapping invocations
\* The timer fires while one invocation is still in progress: the host runs
\* generate_usage_data again, there is no lock, and two runs are interleaved
\* step by step. The new invocation takes the first free slot; it and the
\* invocation in progress have overlapped.
TriggerOverlapping(r) ==
    /\ Free(r)
    /\ Cardinality({q \in Runs : ~Free(q)}) = 1
    /\ \A q \in Runs : Free(q) => r <= q
    /\ \E late \in BOOLEAN : Enter(r, late)
    /\ overlapped' = [q \in Runs |-> q = r \/ ~Free(q) \/ overlapped[q]]

\* The steps of the invocations, following one another or overlapping, while
\* blob storage answers as it did when the process started.
NextOverlap ==
    \/ \E r \in Runs : Trigger(r)
    \/ \E r \in Runs : TriggerOverlapping(r)
    \/ \E r \in Runs : DownloadOpen(r)
    \/ \E r \in Runs : DownloadWriteOk(r)
    \/ \E r \in Runs : DownloadWriteFail(r)
    \/ \E r \in Runs : GetDbConnection(r)
    \/ \E r \in Runs : Generate(r)
    \/ \E r \in Runs : ExecuteMany(r)
    \/ \E r \in Runs : Commit(r)
    \/ \E r \in Runs : Close(r)

\* The process has just started: line 25 made the staging directory, which
\* is empty, the environment holds a usable storage connection string, and
\* each blob is unavailable or holds its one version.
InitOverlap ==
    /\ Init
    /\ config_ok
    /\ files = [b \in BlobNames |-> NoFile]
    /\ \A b \in BlobNames : remote[b] \in {Unavailable, Blob(<< 1 >>)}

SpecOverlap == InitOverlap /\ [][NextOverlap]_vars

\* --------------------------------------- an on-time run and a late run
\* What a run has done and holds, apart from the late flag and the log.
RunState(r) ==
    << pc[r], idx[r], fpos[r], seen[r], connection[r], conn_state[r],
       data_tuples[r], pending[r], raised[r], calls[r] >>

TwinsInStep == RunState(1) = RunState(2)

\* One step of an invocation after it was entered.
RunStep(r) ==
    \/ DownloadOpen(r)
    \/ DownloadWriteOk(r)
    \/ DownloadWriteFail(r)
    \/ GetDbConnection(r)
    \/ Generate(r)
    \/ ExecuteMany(r)
    \/ Commit(r)
    \/ Close(r)

\* Two invocations that differ in myTimer.past_due only are run side by
\* side: the run of slot 1 is on time and takes each step first, with any
\* response of blob storage and database.
TwinLead ==
    /\ TwinsInStep
    /\ \/ /\ \A q \in Runs : pc[q] = "idle"
          /\ invocations + 2 <= MaxRuns
          /\ Enter(1, FALSE)
          /\ UNCHANGED overlapped
       \/ RunStep(1)

\* The run of slot 2 is late and takes the same step next, with the same
\* response: storage has not changed, and the connect, the generator,
\* executemany and the commit answer as they answered the run of slot 1.
TwinFollow ==
    /\ ~TwinsInStep
    /\ \/ /\ pc[2] = "idle"
          /\ Enter(2, TRUE)
          /\ overlapped' = [q \in Runs |-> q <= 2 \/ overlapped[q]]
       \/ RunStep(2)
    /\ TwinsInStep'

\* Storage changes between the steps of the pair.
TwinChangeRemote ==
    /\ TwinsInStep
    /\ ChangeRemote

NextTwin ==
    \/ TwinLead
    \/ TwinFollow
    \/ TwinChangeRemote

SpecTwin == Init /\ [][NextTwin]_vars

\* ------------------------------------------------- staging directory removed
\* Between two invocations the staging directory is removed with what it
\* holds (the temporary directory is cleaned): line 25 made it when the
\* module was imported and nothing makes it again.
RemoveStagingDir ==
    /\ \A q \in Runs : Free(q)
    /\ wallet_dir
    /\ wallet_dir' = FALSE
    /\ files' = [b \in BlobNames |-> NoFile]
    /\ UNCHANGED << env_vars, db_vars, run_vars, gen_vars >>

\* download_file, line 68, without the directory: open raises
\* FileNotFoundError before the blob is asked for; download_wallet_files
\* catches it, lines 62-63, logs it and returns.
DownloadOpenFail(r) ==
    /\ pc[r] = "open"
    /\ ~wallet_dir
    /\ log' = [log EXCEPT ![r] = Append(@, "error")]
    /\ provisioned' = Provisioned(seen[r], files)
    /\ pc' = [pc EXCEPT ![r] = "connect"]
    /\ UNCHANGED << env_vars, fs_vars, db_vars, invocations, past_due, idx,
                    fpos, seen, connection, conn_state, data_tuples, pending,
                    rows_at_start, raised, calls, overlapped, gen_vars >>

NextDir ==
    \/ Next
    \/ RemoveStagingDir
    \/ \E r \in Runs : DownloadOpenFail(r)

SpecDir == Init /\ [][NextDir]_vars

\* ------------------------------------- the generator checked on its own
\* The draws of the random source for n samples, from small ranges: the
\* categorical draws follow from c, the household draws from h; the noise,
\* the anomaly flags and the jumps (one per flagged sample) are free.
Draws(n, c, h, z, a, j) ==
    [ time_of_day    |-> [i \in 1..n |-> c + i],
      season         |-> [i \in 1..n |-> c + 2 * i],
      temperature    |-> [i \in 1..n |-> ((c + i) % 3) - 1],
      household_size |-> [i \in 1..n |-> h + i],
      day_of_week    |-> [i \in 1..n |-> c + i],
      noise          |-> z,
      anomalies      |-> a,
      jump           |-> j ]

\* Number of samples the anomaly draws a flag.
Flagged(n, a) == Cardinality({i \in 1..n : Choice(AnomalyChoices, a[i])})

\* generate_sample_data_tuples is called with n samples and some draws.
GenCall ==
    /\ gen_pc = "ready"
    /\ gen_pc' = "returned"
    /\ \E n \in 0..MaxN, c \in 0..3, h \in 0..5 :
        \E z \in [1..n -> {-1, 0, 2}], a \in [1..n -> {0, 1}] :
            \E j \in [1..Flagged(n, a) -> {0, 1}] :
                /\ gen_n' = n
                /\ gen_rnd' = Draws(n, c, h, z, a, j)
                /\ gen_out' =
                    generate_sample_data_tuples(n, Draws(n, c, h, z, a, j))
    /\ UNCHANGED << env_vars, fs_vars, db_vars, run_vars >>

NextGen == GenCall

InitGenOnly ==
    /\ remote = [b \in BlobNames |-> Unavailable]
    /\ config_ok = TRUE
    /\ files = [b \in BlobNames |-> NoFile]
    /\ RunsIdle
    /\ InitGen

SpecGen == InitGenOnly /\ [][NextGen]_vars

\* ------------------------------------------------------------ vocabulary
Ended(r) == pc[r] = "ended"
Started(r) == pc[r] # "idle"

\* Function f was called in the invocation.
Called(r, f) == \E k \in 1..Len(calls[r]) : calls[r][k] = f

\* A fetch of the invocation failed; both fetches succeeded.
FetchFailed(r) == \E k \in 1..Len(seen[r]) : ~seen[r][k].ok
FetchesOk(r) ==
    /\ Len(seen[r]) = Len(files_to_download)
    /\ \A k \in 1..Len(seen[r]) : seen[r][k].ok

\* Rows of water_consumption_data committed since the invocation began.
RowsSince(r) == SubSeq(table, rows_at_start[r] + 1, Len(table))

\* How the invocation ended: "Done" when it returned after line 47,
\* "Aborted" when it returned without inserting, "Crashed" when an exception
\* left generate_usage_data.
Outcome(r) ==
    IF ~Ended(r) THEN "Running"
    ELSE IF raised[r] # "none" THEN "Crashed"
    ELSE IF Called(r, "close") THEN "Done"
    ELSE "Aborted"

\* executemany rejected a row of the invocation's batch.
ExecuteManyFailed(r) ==
    /\ Ended(r)
    /\ Called(r, "insert_data")
    /\ raised[r] # "none"
    /\ Len(pending[r]) < Len(data_tuples[r])

\* commit failed after executemany had executed the whole batch.
CommitFailed(r) ==
    /\ Ended(r)
    /\ Called(r, "insert_data")
    /\ raised[r] # "none"
    /\ pending[r] = data_tuples[r]

\* ------------------------------------------------------------------ claims
\* C1: in a run in which the fetch of a credential artifact fails, the run
\* is aborted at once: get_db_connection is never called, no records are
\* generated and no rows are inserted.
C1_FetchFailureAborts ==
    \A r \in Runs :
        FetchFailed(r) =>
            /\ ~Called(r, "get_db_connection")
            /\ ~Called(r, "generate_sample_data_tuples")
            /\ RowsSince(r) = << >>
            /\ Ended(r) => Outcome(r) = "Aborted"

\* C2: no failure of any stage leaves generate_usage_data as an exception:
\* every invocation returns normally.
C2_NoExceptionEscapes ==
    \A r \in Runs : raised[r] = "none"

\* C3: a run that got a connection has closed it when the run ends, on
\* every exit path.
C3_ConnectionClosedOnEveryExit ==
    \A r \in Runs :
        (Ended(r) /\ connection[r] = "connection") =>
            conn_state[r] = "closed"

\* C4: insert_data is all-or-nothing: the rows of the run's batch visible in
\* the table are all of the batch or none of it, at every point of the run;
\* when executemany fails on a row or the commit fails, none is visible.
C4_InsertAllOrNothing ==
    \A r \in Runs :
        Started(r) =>
            /\ RowsSince(r) \in { << >>, data_tuples[r] }
            /\ ExecuteManyFailed(r) => RowsSince(r) = << >>
            /\ CommitFailed(r) => RowsSince(r) = << >>

\* C4 witness: executemany failed on the last row of the batch, after the
\* rows before it were executed, and none of them is visible.
C4_Witness ==
    \E r \in Runs :
        /\ ExecuteManyFailed(r)
        /\ Len(data_tuples[r]) = BatchSize
        /\ Len(pending[r]) = BatchSize - 1
        /\ RowsSince(r) = << >>

\* C5: a run in which get_db_connection gives no connection ends Aborted
\* right there, without calling generate_sample_data_tuples or insert_data;
\* the generator is only ever called in a run that holds a connection.
C5_NoWorkWithoutConnection ==
    \A r \in Runs :
        /\ connection[r] = "None" =>
            /\ Outcome(r) = "Aborted"
            /\ ~Called(r, "generate_sample_data_tuples")
            /\ ~Called(r, "insert_data")
            /\ data_tuples[r] = << >>
            /\ RowsSince(r) = << >>
        /\ Called(r, "generate_sample_data_tuples") =>
            connection[r] = "connection"

\* C5 witness: get_db_connection returned None and the run has ended.
C5_Witness ==
    \E r \in Runs :
        /\ connection[r] = "None"
        /\ Called(r, "get_db_connection")
        /\ Ended(r)

\* C6: a run in which both fetches, the connect, executemany and the commit
\* succeed ends Done having committed exactly the 10 records it generated,
\* unmodified and in order, with the connection closed; every batch handed
\* to insert_data has 10 records.
C6_HappyPathCommitsBatch ==
    \A r \in Runs :
        /\ (Ended(r) /\ FetchesOk(r) /\ connection[r] = "connection"
                /\ raised[r] = "none") =>
            /\ Outcome(r) = "Done"
            /\ Len(data_tuples[r]) = BatchSize
            /\ Len(table) = rows_at_start[r] + BatchSize
            /\ RowsSince(r) = data_tuples[r]
            /\ conn_state[r] = "closed"
        /\ Called(r, "insert_data") => Len(data_tuples[r]) = BatchSize

\* C6 witness: the second invocation ended Done after a first one that had
\* committed its batch too.
C6_Witness ==
    \E r \in Runs :
        /\ Ended(r) /\ FetchesOk(r) /\ connection[r] = "connection"
        /\ raised[r] = "none"
        /\ rows_at_start[r] = BatchSize
        /\ Len(table) = 2 * BatchSize

\* C7: for n > 0 the generator returns exactly n records of 7 fields, each
\* in its domain.
C7_GeneratorDomains ==
    (gen_pc = "returned" /\ gen_n > 0) =>
        /\ DOMAIN gen_out = 1..gen_n
        /\ \A i \in 1..gen_n :
            /\ DOMAIN gen_out[i] = 1..7
            /\ gen_out[i][1] \in {"morning", "afternoon", "evening", "night"}
            /\ gen_out[i][2] \in {"spring", "summer", "fall", "winter"}
            /\ gen_out[i][3] \in Int
            /\ gen_out[i][4] \in 1..5
            /\ gen_out[i][5] \in {"weekday", "weekend"}
            /\ gen_out[i][6] \in Int
            /\ gen_out[i][7] \in {0, 1}

\* C7 witness: a call with the largest n whose batch holds a household of 5,
\* a household of 1 and an anomalous record.
C7_Witness ==
    /\ gen_pc = "returned"
    /\ gen_n = MaxN
    /\ \E i, j, k \in 1..gen_n :
        /\ gen_out[i][4] = 5
        /\ gen_out[j][4] = 1
        /\ gen_out[k][7] = 1

\* The jump of record i: its consumption less household_size * 50 and less
\* the noise drawn for it.
JumpOf(i) ==
    gen_out[i][6] - (gen_out[i][4] * 50) - (10 * gen_rnd.noise[i])

\* The number of records flagged anomalous among the first i.
AnomalousUpTo(i) == Cardinality({m \in 1..i : gen_out[m][7] = 1})

\* C8: water_consumption = household_size * 50 + noise + delta, where delta
\* is 0 for a record with is_anomaly = 0 and, for the k-th record with
\* is_anomaly = 1, the k-th jump drawn, which is 0 or 250.
C8_ConsumptionFormula ==
    gen_pc = "returned" =>
        \A i \in 1..gen_n :
            /\ gen_out[i][7] = 0 => JumpOf(i) = 0
            /\ gen_out[i][7] = 1 =>
                /\ JumpOf(i) \in {0, 250}
                /\ JumpOf(i) =
                    (IF gen_rnd.jump[AnomalousUpTo(i)] % 2 = 0 THEN 0 ELSE 250)

\* C8 witness: a batch whose first record is not anomalous, whose second is
\* anomalous with a jump of 0 and whose third is anomalous with a jump of 250.
C8_Witness ==
    /\ gen_pc = "returned"
    /\ gen_n = 3
    /\ gen_out[1][7] = 0
    /\ gen_out[2][7] = 1 /\ JumpOf(2) = 0
    /\ gen_out[3][7] = 1 /\ JumpOf(3) = 250

\* C9: when storage answers the fetches of two calls of download_wallet_files
\* in a row the same way, the second call leaves both staged files exactly as
\* the first one left them.
C9_ProvisionIdempotent ==
    (Len(provisioned) = 2 /\ provisioned[1].seen = provisioned[2].seen) =>
        provisioned[2].staged = provisioned[1].staged

\* C9 witness: two calls in a row that both fetched the same two blobs.
C9_Witness ==
    /\ Len(provisioned) = 2
    /\ provisioned[1].seen = provisioned[2].seen
    /\ Len(provisioned[2].seen) = 2
    /\ provisioned[2].seen[1] = Blob(<<2, 2>>)
    /\ provisioned[2].seen[2] = Blob(<<1>>)
    /\ provisioned[2].staged["ewallet.pem"] = File(<<2, 2>>)

\* C10: when the fetch of ewallet.pem succeeds and the fetch of tnsnames.ora
\* fails, the run is aborted with zero rows inserted (nothing is generated or
\* inserted) and the local ewallet.pem holds the bytes fetched in this run.
C10_SecondFetchFailure ==
    \A r \in Runs :
        (Len(seen[r]) = 2 /\ seen[r][1].ok /\ ~seen[r][2].ok) =>
            /\ ~Called(r, "generate_sample_data_tuples")
            /\ ~Called(r, "insert_data")
            /\ RowsSince(r) = << >>
            /\ files["ewallet.pem"] = File(seen[r][1].bytes)


\* C11: an invocation does not depend on what earlier invocations left in
\* the staging directory: a run never reaches the database with credential
\* files staged by a previous run, so when a run holds a connection every
\* staged file that has contents was fetched by that run itself.
C11_NoStaleCredentials ==
    \A r \in Runs :
        connection[r] = "connection" =>
            \A k \in 1..Len(files_to_download) :
                LET f == files[files_to_download[k]]
                IN  (f.exists /\ f.bytes # << >>) =>
                        /\ k <= Len(seen[r])
                        /\ seen[r][k].ok

\* C12: download_wallet_files makes the staging directory when it is absent:
\* whenever it has returned in a run in which the storage client was made and
\* no fetch failed, both files are staged with the bytes storage answered,
\* also when the directory was absent when the invocation began.
C12_ProvisionsWithoutDirectory ==
    \A r \in Runs :
        (pc[r] = "connect" /\ config_ok /\ ~FetchFailed(r)) =>
            /\ FetchesOk(r)
            /\ \A k \in 1..Len(files_to_download) :
                files[files_to_download[k]] = File(seen[r][k].bytes)

\* The calls of one run in the order of lines 41-47 and 122-123.
StageOrder ==
    << "download_wallet_files", "get_db_connection",
       "generate_sample_data_tuples", "insert_data", "executemany", "commit",
       "close" >>

\* C13: in every run the stages happen in the order provision, connect,
\* generate, insert (executemany, then commit), close, each at most once;
\* nothing else is called while provisioning has not returned; executemany
\* and commit are made on an open connection only, the commit only after
\* executemany has executed the whole batch; nothing happens on the
\* connection after the close.
C13_StagesInOrder ==
    \A r \in Runs :
        /\ Len(calls[r]) <= Len(StageOrder)
        /\ calls[r] = SubSeq(StageOrder, 1, Len(calls[r]))
        /\ pc[r] \in {"open", "write"} =>
                calls[r] = << "download_wallet_files" >>
        /\ pc[r] \in {"executemany", "commit"} =>
                /\ connection[r] = "connection"
                /\ conn_state[r] = "open"
        /\ pc[r] = "commit" =>
                /\ Called(r, "executemany")
                /\ pending[r] = data_tuples[r]
                /\ Len(pending[r]) = BatchSize
        /\ conn_state[r] = "closed" =>
                /\ pc[r] = "ended"
                /\ calls[r] = StageOrder

\* A run went through all the stages and closed its connection.
C13_Witness ==
    \E r \in Runs :
        /\ Ended(r)
        /\ calls[r] = StageOrder
        /\ conn_state[r] = "closed"
        /\ Len(RowsSince(r)) = BatchSize

\* C15: the files are fetched in the order ewallet.pem, tnsnames.ora and
\* download_wallet_files stops at the first fetch that fails. The file whose
\* fetch fails was opened for writing and is left existing and empty, the
\* other file is left as it was, and no further fetch is made and no file
\* is touched until the next invocation begins;
\* tnsnames.ora is written only in a run whose fetch of ewallet.pem
\* succeeded, so it is unchanged when the first fetch fails.
C15_FailedFetchEffect ==
    [][ /\ \A r \in Runs :
            (/\ Len(seen'[r]) = Len(seen[r]) + 1
             /\ ~seen'[r][Len(seen'[r])].ok) =>
                /\ Len(seen'[r]) = idx[r]
                /\ files[files_to_download[idx[r]]] = File(<< >>)
                /\ files' = files
                /\ idx'[r] = idx[r]
                /\ pc'[r] = "connect"
        /\ \A r \in Runs :
            (/\ \E k \in 1..Len(seen[r]) : ~seen[r][k].ok
             /\ invocations' = invocations) =>
                /\ pc'[r] \notin {"open", "write"}
                /\ files' = files
        /\ files'["tnsnames.ora"] # files["tnsnames.ora"] =>
                \E r \in Runs :
                    /\ idx[r] = 2
                    /\ pc[r] \in {"open", "write"}
                    /\ Len(seen[r]) = 1
                    /\ seen[r][1].ok
      ]_vars

\* The fetch of ewallet.pem failed in a run that found both files staged
\* with contents by the run before: ewallet.pem is left empty, its earlier
\* contents are lost, and tnsnames.ora is as the earlier run left it.
C15_Witness ==
    /\ Len(provisioned) = 2
    /\ provisioned[1].staged["ewallet.pem"].bytes # << >>
    /\ provisioned[1].staged["tnsnames.ora"].bytes # << >>
    /\ provisioned[2].seen = << Unavailable >>
    /\ provisioned[2].staged["ewallet.pem"] = File(<< >>)
    /\ provisioned[2].staged["tnsnames.ora"]
            = provisioned[1].staged["tnsnames.ora"]
    /\ files = provisioned[2].staged
    /\ pc[1] = "connect"

\* Another invocation is between the open and the write of a staged file.
OtherRunWriting(r) ==
    \E q \in Runs : q # r /\ pc[q] = "write"

\* C16 as stated: with two runs interleaved, whenever a run whose two
\* fetches succeeded is about to call get_db_connection, both staged files
\* hold the complete contents of a blob and the other run has no staged file
\* truncated or partly written.
C16_ConnectSeesCompleteFiles ==
    \A r \in Runs :
        (pc[r] = "connect" /\ FetchesOk(r)) =>
            /\ \A b \in BlobNames :
                \E v \in BlobVersions : files[b] = File(v)
            /\ ~OtherRunWriting(r)

\* C16 amended: that holds for a run that no other invocation has
\* overlapped: when it is about to call get_db_connection after two
\* successful fetches, both staged files hold the bytes it fetched and no
\* other run is writing one. (A run that another overlaps can find a staged
\* file emptied by the other run's open.)
C16_ConnectSeesOwnFilesUnlessOverlapped ==
    \A r \in Runs :
        (pc[r] = "connect" /\ FetchesOk(r) /\ ~overlapped[r]) =>
            /\ \A k \in 1..Len(files_to_download) :
                files[files_to_download[k]] = File(seen[r][k].bytes)
            /\ ~OtherRunWriting(r)

\* A run that nothing overlapped is about to connect with the two files it
\* fetched, after an earlier invocation has ended.
C16_Witness ==
    \E r \in Runs :
        /\ pc[r] = "connect" /\ FetchesOk(r) /\ ~overlapped[r]
        /\ invocations > 1
        /\ \A b \in BlobNames : files[b].exists /\ files[b].bytes # << >>

\* The commit of the invocation succeeded.
CommitSucceeded(r) ==
    /\ Called(r, "commit")
    /\ raised[r] = "none"

\* The j-th batch of rows of the table.
TableBatch(j) == SubSeq(table, BatchSize * (j - 1) + 1, BatchSize * j)

\* C17: after any sequence of invocations, following one another or
\* overlapping, with any failures, water_consumption_data holds 10 rows for
\* every commit that succeeded and nothing else. The table changes only
\* when a run commits, and then exactly the 10 rows that run generated are
\* added after the rows already there; the batch of every run whose commit
\* succeeded is in the table, and a run whose executemany or commit failed
\* has added nothing.
C17_RowsAreCommittedBatches ==
    /\ [](/\ Len(table) = BatchSize * commits
          /\ Cardinality({r \in Runs : CommitSucceeded(r)}) <= commits
          /\ \A r \in Runs :
                CommitSucceeded(r) =>
                    \E j \in 1..commits : TableBatch(j) = data_tuples[r])
    /\ [][ table' # table =>
            \E r \in Runs :
                /\ pc[r] = "commit"
                /\ conn_state[r] = "open"
                /\ Len(data_tuples[r]) = BatchSize
                /\ table' = table \o data_tuples[r]
                /\ commits' = commits + 1
                /\ raised'[r] = "none"
         ]_vars

\* Two invocations overlapped; the commit of one succeeded and executemany
\* of the other failed after it had executed some rows: the table holds the
\* 10 rows of the first.
C17_Witness ==
    \E r, q \in Runs :
        /\ overlapped[r] /\ overlapped[q]
        /\ CommitSucceeded(r) /\ Ended(r)
        /\ ExecuteManyFailed(q) /\ pending[q] # << >>
        /\ commits = 1
        /\ table = data_tuples[r]

\* C14: the late flag changes the log only. Of two runs that differ in
\* myTimer.past_due only, the late one can take every step the on-time one
\* took, with the same responses of blob storage and database; when both
\* have taken the same steps they have made the same calls, hold the same
\* results and have the same outcome, and the log of the late run is the log
\* of the on-time run after one warning.
C14_LateFlagObservabilityOnly ==
    /\ ~TwinsInStep => ENABLED TwinFollow
    /\ (TwinsInStep /\ Started(1)) =>
        /\ ~past_due[1] /\ past_due[2]
        /\ calls[2] = calls[1]
        /\ Outcome(2) = Outcome(1)
        /\ log[2] = << "warning" >> \o log[1]

\* The on-time run and the late run have both ended Done, and each has
\* committed its batch.
C14_Witness ==
    /\ TwinsInStep
    /\ Outcome(1) = "Done" /\ Outcome(2) = "Done"
    /\ past_due[2] /\ ~past_due[1]
    /\ log[2][1] = "warning"
    /\ commits = 2

============================================================================
